---- MODULE Spec2Model ----
(***************************************************************************)
(* BanterChess embed script (src/js/embed.js): the board reconciler        *)
(* (syncBoard), the click-driven selection state machine                   *)
(* (handleSquareClick / clearSelection) and the space-state channel        *)
(* (setupBanterStateListeners, the reset button), together with the rules  *)
(* engine the script drives through ChessGame (chess.js 0.10.3, loaded by  *)
(* loadDependencies).                                                      *)
(*                                                                         *)
(* The board is reduced from 8x8 to NFiles x NRanks and the standard       *)
(* starting position to king, rook and two pawns a side; the engine keeps  *)
(* every kind of move the reconciler can see: quiet moves, captures,       *)
(* double pawn pushes, en passant, castling (two objects move), promotion  *)
(* and capturing promotion, with the king-safety filter.  A FEN is its     *)
(* placement rows (one character per token, as the script walks them), the *)
(* side to move, the castling rights and the en-passant square; the two    *)
(* move counters, which nothing in the script reads, are left out.         *)
(***************************************************************************)
EXTENDS Integers, Sequences, FiniteSets, TLC

\* ---------------------------------------------------------------- bounds
\* The files and ranks of the board (8 and 8 in the script).
NFiles == 4
NRanks == 5

\* The successful local moves, reset clicks and writes of other clients in
\* one run; selections, failed clicks, deliveries and completions are not
\* counted.
MaxEvents == 1

\* The object creations the host lets fail in one run of SpecFault.
MaxFailures == 1

\* The calls of setupBanterStateListeners per instance in one run of
\* SpecStartup (initializeBoard runs once per "unity-loaded" event).
MaxSetups == 2

\* ---------------------------------------------------------------- squares
Files == 1..NFiles
Ranks == 1..NRanks
Squares == Files \X Ranks
NoSq == <<0, 0>>

\* ------------------------------------------------------------ descriptors
Empty == ""
WhiteChars == {"P", "N", "B", "R", "Q", "K"}
BlackChars == {"p", "n", "b", "r", "q", "k"}
Chars == WhiteChars \cup BlackChars

toLowerCase(c) ==
  CASE c = "P" -> "p" [] c = "N" -> "n" [] c = "B" -> "b"
    [] c = "R" -> "r" [] c = "Q" -> "q" [] c = "K" -> "k" [] OTHER -> c

toUpperCase(c) ==
  CASE c = "p" -> "P" [] c = "n" -> "N" [] c = "b" -> "B"
    [] c = "r" -> "R" [] c = "q" -> "Q" [] c = "k" -> "K" [] OTHER -> c

ColorOf(c) == IF c \in WhiteChars THEN "w" ELSE "b"
swap_color(c) == IF c = "w" THEN "b" ELSE "w"
Piece(color, type) == IF color = "w" THEN toUpperCase(type) ELSE type

Abs(x) == IF x < 0 THEN -x ELSE x
Sgn(x) == IF x < 0 THEN -1 ELSE IF x > 0 THEN 1 ELSE 0
Max2(a, b) == IF a < b THEN b ELSE a

\* -------------------------------------------------- rules engine (chess.js)
HomeRank(color) == IF color = "w" THEN 1 ELSE NRanks
PawnRank(color) == IF color = "w" THEN 2 ELSE NRanks - 1
LastRank(color) == IF color = "w" THEN NRanks ELSE 1
PawnDir(color) == IF color = "w" THEN 1 ELSE -1
KingHome(color) == <<1, HomeRank(color)>>
RookHome(color) == <<NFiles, HomeRank(color)>>

EmptyBoard == [s \in Squares |-> Empty]

StartBoard ==
  [s \in Squares |->
     CASE s = KingHome("w") -> "K"
       [] s = RookHome("w") -> "R"
       [] s \in {<<2, PawnRank("w")>>, <<3, PawnRank("w")>>} -> "P"
       [] s = KingHome("b") -> "k"
       [] s = RookHome("b") -> "r"
       [] s \in {<<2, PawnRank("b")>>, <<3, PawnRank("b")>>} -> "p"
       [] OTHER -> Empty]

StartPosition ==
  [board |-> StartBoard, turn |-> "w", castle |-> {"w", "b"}, ep |-> NoSq]

\* The squares strictly between a and b on a rank, file or diagonal.
Between(a, b) ==
  LET df == b[1] - a[1]
      dr == b[2] - a[2]
      n == Max2(Abs(df), Abs(dr))
  IN {<<a[1] + k * Sgn(df), a[2] + k * Sgn(dr)>> : k \in 1..(n - 1)}

\* Whether the piece on `from` attacks `to`.
Attacks(board, from, to) ==
  LET p == board[from]
      t == toLowerCase(p)
      df == to[1] - from[1]
      dr == to[2] - from[2]
      clear == \A s \in Between(from, to) : board[s] = Empty
  IN /\ p # Empty
     /\ from # to
     /\ CASE t = "p" -> Abs(df) = 1 /\ dr = PawnDir(ColorOf(p))
          [] t = "n" -> {Abs(df), Abs(dr)} = {1, 2}
          [] t = "k" -> Max2(Abs(df), Abs(dr)) = 1
          [] t = "r" -> (df = 0 \/ dr = 0) /\ clear
          [] t = "b" -> Abs(df) = Abs(dr) /\ clear
          [] t = "q" -> (df = 0 \/ dr = 0 \/ Abs(df) = Abs(dr)) /\ clear
          [] OTHER -> FALSE

attacked(board, color, sq) ==
  \E s \in Squares :
    board[s] # Empty /\ ColorOf(board[s]) = color /\ Attacks(board, s, sq)

king_attacked(board, color) ==
  \E s \in Squares :
    board[s] = Piece(color, "k") /\ attacked(board, swap_color(color), s)

Promotions == {"q", "r", "b", "n"}

Move(from, to, flag, promotion) ==
  [from |-> from, to |-> to, flag |-> flag, promotion |-> promotion]

PawnMoves(pos, from) ==
  LET us == pos.turn
      d == PawnDir(us)
      one == <<from[1], from[2] + d>>
      two == <<from[1], from[2] + 2 * d>>
      promo(to, flag) ==
        IF to[2] = LastRank(us)
        THEN {Move(from, to, flag, x) : x \in Promotions}
        ELSE {Move(from, to, flag, "")}
      push ==
        IF one \in Squares /\ pos.board[one] = Empty
        THEN promo(one, "n") \cup
             (IF from[2] = PawnRank(us) /\ two \in Squares
                 /\ pos.board[two] = Empty
              THEN {Move(from, two, "b", "")} ELSE {})
        ELSE {}
      caps ==
        UNION {IF pos.board[to] # Empty /\ ColorOf(pos.board[to]) # us
               THEN promo(to, "c")
               ELSE IF to = pos.ep THEN {Move(from, to, "e", "")} ELSE {}
               : to \in {s \in Squares : Abs(s[1] - from[1]) = 1
                                          /\ s[2] = from[2] + d}}
  IN push \cup caps

PieceMoves(pos, from) ==
  {Move(from, to, IF pos.board[to] = Empty THEN "n" ELSE "c", "") :
     to \in {s \in Squares :
               /\ Attacks(pos.board, from, s)
               /\ (pos.board[s] = Empty \/ ColorOf(pos.board[s]) # pos.turn)}}

\* Castling: the king on its home square goes two files toward the rook,
\* which lands on the file the king crossed.
CastleMoves(pos, from) ==
  LET us == pos.turn
      them == swap_color(us)
      h == HomeRank(us)
  IN IF /\ from = KingHome(us)
        /\ pos.board[from] = Piece(us, "k")
        /\ us \in pos.castle
        /\ pos.board[RookHome(us)] = Piece(us, "r")
        /\ \A f \in 2..(NFiles - 1) : pos.board[<<f, h>>] = Empty
        /\ \A f \in 1..3 : ~attacked(pos.board, them, <<f, h>>)
     THEN {Move(from, <<3, h>>, "k", "")}
     ELSE {}

make_move(pos, m) ==
  LET us == pos.turn
      them == swap_color(us)
      p == pos.board[m.from]
      placed == IF m.promotion # "" THEN Piece(us, m.promotion) ELSE p
      b1 == [pos.board EXCEPT ![m.from] = Empty, ![m.to] = placed]
      b2 == IF m.flag = "e"
            THEN [b1 EXCEPT ![<<m.to[1], m.from[2]>>] = Empty]
            ELSE b1
      b3 == IF m.flag = "k"
            THEN [b2 EXCEPT ![RookHome(us)] = Empty,
                            ![<<2, HomeRank(us)>>] = Piece(us, "r")]
            ELSE b2
      lostUs == IF m.from \in {KingHome(us), RookHome(us)} THEN {us} ELSE {}
      lostThem == IF m.to = RookHome(them) THEN {them} ELSE {}
  IN [board |-> b3,
      turn |-> them,
      castle |-> (pos.castle \ lostUs) \ lostThem,
      ep |-> IF m.flag = "b" THEN <<m.from[1], m.from[2] + PawnDir(us)>>
             ELSE NoSq]

\* The moves of the piece on `from`, before the king-safety filter.
PseudoMoves(pos, from) ==
  LET p == pos.board[from]
  IN IF p = Empty \/ ColorOf(p) # pos.turn THEN {}
     ELSE IF toLowerCase(p) = "p" THEN PawnMoves(pos, from)
     ELSE PieceMoves(pos, from) \cup CastleMoves(pos, from)

\* A move is legal if it does not leave the mover's king attacked.
Legal(pos, m) == ~king_attacked(make_move(pos, m).board, pos.turn)

\* generate_moves({square}): the legal moves of the side to move from one
\* square.
generate_moves(pos, square) ==
  IF square \in Squares
  THEN {m \in PseudoMoves(pos, square) : Legal(pos, m)}
  ELSE {}

\* ------------------------------------------------------------------ FEN
DigitChars == <<"1", "2", "3", "4", "5", "6", "7", "8">>

\* parseInt of one character: 0 stands for NaN and for "0", both falsy.
parseInt(c) ==
  IF \E n \in 1..Len(DigitChars) : DigitChars[n] = c
  THEN CHOOSE n \in 1..Len(DigitChars) : DigitChars[n] = c
  ELSE 0

NoRows == <<>>
ResetFen ==
  [tag |-> "reset", rows |-> NoRows, turn |-> "-", castle |-> {}, ep |-> NoSq]

\* chess.js fen(): one rank, files left to right, runs of empty squares
\* written as a digit.
RECURSIVE FenRow(_, _, _, _)
FenRow(board, r, f, empty) ==
  IF f > NFiles
  THEN IF empty > 0 THEN <<DigitChars[empty]>> ELSE <<>>
  ELSE IF board[<<f, r>>] = Empty
       THEN FenRow(board, r, f + 1, empty + 1)
       ELSE (IF empty > 0 THEN <<DigitChars[empty]>> ELSE <<>>)
            \o <<board[<<f, r>>]>> \o FenRow(board, r, f + 1, 0)

fen(pos) ==
  [tag |-> "fen",
   rows |-> [k \in 1..NRanks |-> FenRow(pos.board, NRanks + 1 - k, 1, 0)],
   turn |-> pos.turn, castle |-> pos.castle, ep |-> pos.ep]

\* chess.js load(): the placement walked character by character.
RECURSIVE LoadRow(_, _, _, _, _)
LoadRow(board, row, r, k, f) ==
  IF k > Len(row) THEN board
  ELSE IF parseInt(row[k]) > 0
       THEN LoadRow(board, row, r, k + 1, f + parseInt(row[k]))
       ELSE LoadRow([board EXCEPT ![<<f, r>>] = row[k]], row, r, k + 1, f + 1)

RECURSIVE LoadRows(_, _, _)
LoadRows(board, rows, k) ==
  IF k > Len(rows) THEN board
  ELSE LoadRows(LoadRow(board, rows[k], NRanks + 1 - k, 1, 1), rows, k + 1)

validate_fen(f) == f.tag = "fen"

load(pos, f) ==
  IF ~validate_fen(f) THEN pos
  ELSE [board |-> LoadRows(EmptyBoard, f.rows, 1),
        turn |-> f.turn, castle |-> f.castle, ep |-> f.ep]

\* ------------------------------------------------------------- ChessGame
reset(ch) == StartPosition

\* chess.js 0.10.3 load() returns false on a FEN it rejects and does not
\* throw, so the wrapper's catch is not taken and it answers true.
loadFen(ch, f) == [ok |-> TRUE, chess |-> load(ch, f)]

\* Chess.move({from, to, promotion}) looks the move up among the legal
\* moves: those from `move.from` to `move.to` whose promotion, if they
\* have one, is the one asked for.
makeMove(ch, move) ==
  LET ms == {m \in PseudoMoves(ch, move.from) :
               /\ m.to = move.to
               /\ (m.promotion = "" \/ m.promotion = move.promotion)
               /\ Legal(ch, m)}
  IN IF ms = {} THEN [ok |-> FALSE, chess |-> ch, flag |-> "", promotion |-> ""]
     ELSE LET m == CHOOSE x \in ms : TRUE
          IN [ok |-> TRUE, chess |-> make_move(ch, m),
              flag |-> m.flag, promotion |-> m.promotion]

getFen(ch) == fen(ch)

getMoves(ch, square) == generate_moves(ch, square)

get(ch, square) == ch.board[square]

\* ----------------------------------------------------------------- page
\* Two script tags of one page (README, Multiple Instances) give two board
\* instances; each has its own `state` and `config`, the page has one window.
Instances == {"A", "B"}
stateKey(i) == i     \* 'chess_game_' + config.instance
Keys == {stateKey(i) : i \in Instances}

VARIABLES
  chess,           \* window.chessGame.chess, the engine's position
  insts,           \* the board instances loaded in the page
  pieces,          \* state.pieces of each instance: <<[sq, obj], ...>> in key order
  selectedSquare,  \* state.selectedSquare of each instance (NoSq: null)
  tiles,           \* the colour role of each tile of each instance
  objs,            \* the piece GameObjects ever created: [type, sq, alive, inst]
  running,         \* the syncBoard calls suspended at `await createPiece`
  spaceState,      \* scene.spaceState.public
  notifs,          \* a space-state-changed event for the key is yet to be delivered
  initPending,     \* the initial read of setupBanterStateListeners is still waiting
  ownWrite,        \* history: the stored value of a key was last written by this page
  syncSeq,         \* history: the syncBoard calls each instance has started
  lastPass,        \* history: the syncBoard call that completed last, per instance
  latest,          \* history: what the syncBoard call started last was started by
  nEvents,         \* history: local moves, reset clicks and peer writes so far
  nFailures,       \* history: the creations that have failed so far
  uid,             \* scene.localUser.uid is defined
  listenersSetup,  \* state.listenersSetup of each instance
  nSetups,         \* history: the calls of setupBanterStateListeners so far
  nReads           \* history: the initial reads each instance has made

vars == <<chess, insts, pieces, selectedSquare, tiles, objs, running,
          spaceState, notifs, initPending, ownWrite, syncSeq, lastPass, latest,
          nEvents, nFailures, uid, listenersSetup, nSetups, nReads>>

\* The page's state as one value, so that a handler is a function on it.
Cur ==
  [chess |-> chess, insts |-> insts, pieces |-> pieces,
   selectedSquare |-> selectedSquare, tiles |-> tiles, objs |-> objs,
   running |-> running, spaceState |-> spaceState, notifs |-> notifs,
   initPending |-> initPending, ownWrite |-> ownWrite, syncSeq |-> syncSeq,
   lastPass |-> lastPass, latest |-> latest, nEvents |-> nEvents,
   nFailures |-> nFailures, uid |-> uid, listenersSetup |-> listenersSetup,
   nSetups |-> nSetups, nReads |-> nReads]

Commit(w) ==
  /\ chess' = w.chess
  /\ insts' = w.insts
  /\ pieces' = w.pieces
  /\ selectedSquare' = w.selectedSquare
  /\ tiles' = w.tiles
  /\ objs' = w.objs
  /\ running' = w.running
  /\ spaceState' = w.spaceState
  /\ notifs' = w.notifs
  /\ initPending' = w.initPending
  /\ ownWrite' = w.ownWrite
  /\ syncSeq' = w.syncSeq
  /\ lastPass' = w.lastPass
  /\ latest' = w.latest
  /\ nEvents' = w.nEvents
  /\ nFailures' = w.nFailures
  /\ uid' = w.uid
  /\ listenersSetup' = w.listenersSetup
  /\ nSetups' = w.nSetups
  /\ nReads' = w.nReads

\* ------------------------------------------------------------- syncBoard
Entry(sq, x) == [sq |-> sq, obj |-> x]
Target(sq, char) == [sq |-> sq, char |-> char]

\* state.pieces[sq], 0 for undefined.
PieceAt(map, sq) ==
  IF \E j \in 1..Len(map) : map[j].sq = sq
  THEN map[CHOOSE j \in 1..Len(map) : map[j].sq = sq].obj
  ELSE 0

\* Step 1: one row of the placement field, `fileIndex` counted from 0.
RECURSIVE DecodeRow(_, _, _, _)
DecodeRow(row, rank, k, fileIndex) ==
  IF k > Len(row) THEN <<>>
  ELSE IF parseInt(row[k]) > 0
       THEN DecodeRow(row, rank, k + 1, fileIndex + parseInt(row[k]))
       ELSE <<Target(<<fileIndex + 1, rank>>, row[k])>>
            \o DecodeRow(row, rank, k + 1, fileIndex + 1)

RECURSIVE DecodeRows(_, _)
DecodeRows(rows, rowIndex) ==
  IF rowIndex >= Len(rows) THEN <<>>
  ELSE DecodeRow(rows[rowIndex + 1], NRanks - rowIndex, 1, 0)
       \o DecodeRows(rows, rowIndex + 1)

newBoardState(f) == DecodeRows(f.rows, 0)

\* A reuse pool that is never filled: nothing of the old map is reused.
availablePieces_Empty(map, os) == [c \in Chars |-> <<>>]

\* Step 2: the reuse pool, each descriptor's objects in the map's key order.
availablePieces(map, os) ==
  [c \in Chars |->
     LET isC(e) == os[e.obj].type = c
         sel == SelectSeq(map, isC)
     IN [j \in 1..Len(sel) |-> sel[j].obj]]

\* Splice with the removal forgotten: a locked object stays in the pool.
Splice_Forgotten(list, x) == list

\* list.indexOf(x) then list.splice(idx, 1)
Splice(list, x) ==
  IF \E j \in 1..Len(list) : list[j] = x
  THEN LET idx == CHOOSE j \in 1..Len(list) :
                    list[j] = x /\ \A h \in 1..(j - 1) : list[h] # x
       IN SubSeq(list, 1, idx - 1) \o SubSeq(list, idx + 1, Len(list))
  ELSE list

\* Step 3, pass 1: lock the objects that already stand on their square.
RECURSIVE Pass1(_, _, _, _, _)
Pass1(map, os, target, j, acc) ==
  IF j > Len(target) THEN acc
  ELSE LET sq == target[j].sq
           char == target[j].char
           existingPieceOnSquare == PieceAt(map, sq)
       IN IF existingPieceOnSquare # 0
             /\ os[existingPieceOnSquare].type = char
          THEN Pass1(map, os, target, j + 1,
                 [acc EXCEPT
                    !.next = Append(@, Entry(sq, existingPieceOnSquare)),
                    !.pool[char] = Splice(@, existingPieceOnSquare)])
          ELSE Pass1(map, os, target, j + 1,
                 [acc EXCEPT !.pending = Append(@, target[j])])

\* Pass 2 that reads the last object of the pool without taking it out.
RECURSIVE Pass2_Peek(_)
Pass2_Peek(st) ==
  IF st.p.pending = <<>> THEN st
  ELSE LET sq == Head(st.p.pending).sq
           char == Head(st.p.pending).char
           list == st.p.pool[char]
       IN IF Len(list) > 0
          THEN LET piece == list[Len(list)]
               IN Pass2_Peek([p |-> [st.p EXCEPT
                                       !.next = Append(@, Entry(sq, piece)),
                                       !.relocated = @ \cup {piece},
                                       !.pending = Tail(@)],
                              objs |-> [st.objs EXCEPT ![piece].sq = sq]])
          ELSE st

\* Step 4, pass 2, up to the next `await createPiece` or to the end of the
\* list: st is [p: the call's locals, objs: the scene].
RECURSIVE Pass2(_)
Pass2(st) ==
  IF st.p.pending = <<>> THEN st
  ELSE LET sq == Head(st.p.pending).sq
           char == Head(st.p.pending).char
           list == st.p.pool[char]
       IN IF Len(list) > 0
          THEN LET piece == list[Len(list)]
               IN Pass2([p |-> [st.p EXCEPT
                                  !.pool[char] = SubSeq(list, 1, Len(list) - 1),
                                  !.next = Append(@, Entry(sq, piece)),
                                  !.relocated = @ \cup {piece},
                                  !.pending = Tail(@)],
                         objs |-> [st.objs EXCEPT ![piece].sq = sq]])
          ELSE st

\* Step 5 left out: nothing is destroyed.
Leftover_Kept(p) == {}

Leftover(p) == UNION {{p.pool[c][j] : j \in 1..Len(p.pool[c])} : c \in Chars}

\* Steps 5 and 6: destroy what is left in the pool, replace the map.
FinishSync(w, p, os) ==
  LET i == p.inst
      dead == Leftover(p)
  IN [w EXCEPT
        !.objs = [o \in 1..Len(os) |->
                    IF o \in dead THEN [os[o] EXCEPT !.alive = FALSE]
                    ELSE os[o]],
        !.pieces[i] = p.next,
        !.running = @ \ {q \in @ : q.inst = i /\ q.seq = p.seq},
        !.lastPass[i] =
           [seq |-> p.seq, info |-> p.info, created |-> p.created,
            destroyed |-> dead, relocated |-> p.relocated,
            failed |-> p.failed]]

\* The call runs on from pass 2: to its end, or to the next creation, where
\* it is suspended with the square it is creating for at the head of
\* `pending`.
RunSync(w, p0, os0) ==
  LET st == Pass2([p |-> p0, objs |-> os0])
  IN IF st.p.pending = <<>>
     THEN FinishSync(w, st.p, st.objs)
     ELSE [w EXCEPT
             !.objs = st.objs,
             !.running = (@ \ {q \in @ : q.inst = p0.inst /\ q.seq = p0.seq})
                         \cup {st.p}]

\* syncBoard without pass 1: every target square is filled from the pool.
syncBoard_NoPass1(w, i, info) ==
  LET f == getFen(w.chess)
      map == w.pieces[i]
      p == [inst |-> i, seq |-> w.syncSeq[i] + 1, next |-> <<>>,
            pool |-> availablePieces(map, w.objs),
            pending |-> newBoardState(f),
            created |-> {}, relocated |-> {}, failed |-> {},
            info |-> [info EXCEPT
                        !.fen = f,
                        !.mapBefore = map,
                        !.again = /\ \A q \in w.running : q.inst # i
                                  /\ w.lastPass[i].info.fen = f]]
  IN RunSync([w EXCEPT !.syncSeq[i] = @ + 1, !.latest[i] = p.info], p, w.objs)

syncBoard(w, i, info) ==
  LET f == getFen(w.chess)
      map == w.pieces[i]
      first == Pass1(map, w.objs, newBoardState(f), 1,
                     [next |-> <<>>, pool |-> availablePieces(map, w.objs),
                      pending |-> <<>>])
      p == [inst |-> i, seq |-> w.syncSeq[i] + 1, next |-> first.next,
            pool |-> first.pool, pending |-> first.pending,
            created |-> {}, relocated |-> {}, failed |-> {},
            info |-> [info EXCEPT
                        !.fen = f,
                        !.mapBefore = map,
                        !.again = /\ \A q \in w.running : q.inst # i
                                  /\ w.lastPass[i].info.fen = f]]
  IN RunSync([w EXCEPT !.syncSeq[i] = @ + 1, !.latest[i] = p.info], p, w.objs)

\* createPiece that sets pieceType to the lower-cased `type`.
createPiece_LowerType(w, p) ==
  LET sq == Head(p.pending).sq
      char == Head(p.pending).char
      piece == Len(w.objs) + 1
      os == Append(w.objs, [type |-> toLowerCase(char), sq |-> sq,
                            alive |-> TRUE, inst |-> p.inst])
  IN RunSync(w, [p EXCEPT !.next = Append(@, Entry(sq, piece)),
                          !.created = @ \cup {piece},
                          !.pending = Tail(@)], os)

\* createPiece resolves with a new object for the square at the head of
\* `pending`, and the suspended call goes on.
createPiece(w, p) ==
  LET sq == Head(p.pending).sq
      char == Head(p.pending).char
      piece == Len(w.objs) + 1
      os == Append(w.objs, [type |-> char, sq |-> sq, alive |-> TRUE,
                            inst |-> p.inst])
  IN RunSync(w, [p EXCEPT !.next = Append(@, Entry(sq, piece)),
                          !.created = @ \cup {piece},
                          !.pending = Tail(@)], os)

\* createPiece that throws out of syncBoard when the host fails: the call
\* ends there.
createPieceNull_Throws(w, p, partial) ==
  [w EXCEPT !.running = @ \ {q \in @ : q.inst = p.inst /\ q.seq = p.seq},
            !.nFailures = @ + 1]

\* createPiece resolves with null: a host call threw and the catch block
\* answered.  `partial` says whether the GameObject had been made by then;
\* such an object has no pieceType and no click handler.  The square is
\* skipped and the suspended call goes on.
createPieceNull(w, p, partial) ==
  LET sq == Head(p.pending).sq
      os == IF partial
            THEN Append(w.objs, [type |-> Empty, sq |-> sq, alive |-> TRUE,
                                 inst |-> p.inst])
            ELSE w.objs
  IN RunSync([w EXCEPT !.nFailures = @ + 1],
             [p EXCEPT !.failed = @ \cup {sq}, !.pending = Tail(@)], os)

\* ------------------------------------------------------ history records
NoMove == [from |-> NoSq, to |-> NoSq, flag |-> "", promotion |-> ""]

\* Whether a Piece Map has exactly the occupied squares of `board`, each
\* with an object of the square's descriptor.
Matches(map, os, board) ==
  /\ {map[j].sq : j \in 1..Len(map)} = {s \in Squares : board[s] # Empty}
  /\ \A j \in 1..Len(map) : os[map[j].obj].type = board[map[j].sq]

\* What a syncBoard call was started by and from: trig is the caller, mv the
\* move made (NoMove if none), matched whether the Piece Map matched the
\* position the handler found, echo whether the record handled is the one
\* this page wrote last and describes the page's own position, arg the FEN
\* the caller gave to loadFen just before (NoFen if it called no loadFen).
NoFen == [tag |-> "none", rows |-> NoRows, turn |-> "-", castle |-> {},
          ep |-> NoSq]

SyncInfo(trig, mv, matched, echo) ==
  [trig |-> trig, mv |-> mv, matched |-> matched, echo |-> echo,
   fen |-> ResetFen, mapBefore |-> <<>>, again |-> FALSE, arg |-> NoFen]

\* ------------------------------------------------------- selection machine
\* clearSelection that leaves the tiles' colours alone.
clearSelection_KeepColours(w, i) == [w EXCEPT !.selectedSquare[i] = NoSq]

clearSelection(w, i) ==
  [w EXCEPT !.selectedSquare[i] = NoSq,
            !.tiles[i] = [s \in Squares |-> "normal"]]

\* SetPublicSpaceProps({[stateKey]: JSON.stringify(boardState)})
SetPublicSpaceProps(w, i, f) ==
  [w EXCEPT !.spaceState[stateKey(i)] = [kind |-> "json", fen |-> f],
            !.notifs[stateKey(i)] = TRUE,
            !.ownWrite[stateKey(i)] = TRUE]

\* The first branch of handleSquareClick: nothing is selected.
selectSquare(w, i, squareId) ==
  IF get(w.chess, squareId) # Empty
  THEN LET dests == {m.to : m \in getMoves(w.chess, squareId)}
       IN [w EXCEPT
          !.selectedSquare[i] = squareId,
          !.tiles[i] = [s \in Squares |->
                          IF s \in dests
                          THEN "valid"
                          ELSE IF s = squareId THEN "selected"
                          ELSE w.tiles[i][s]]]
  ELSE w

\* handleSquareClick that asks for no promotion piece.
handleSquareClick_NoPromotion(w, i, squareId) ==
  IF w.selectedSquare[i] = NoSq
  THEN IF get(w.chess, squareId) # Empty
       THEN selectSquare(w, i, squareId)
       ELSE w
  ELSE LET move == [from |-> w.selectedSquare[i], to |-> squareId,
                    promotion |-> ""]
           r == makeMove(w.chess, move)
       IN IF r.ok
          THEN LET w1 == [w EXCEPT !.chess = r.chess, !.nEvents = @ + 1]
                   w2 == SetPublicSpaceProps(w1, i, getFen(w1.chess))
                   w3 == syncBoard(w2, i,
                           SyncInfo("move",
                             [from |-> move.from, to |-> squareId,
                              flag |-> r.flag, promotion |-> r.promotion],
                             Matches(w.pieces[i], w.objs, w.chess.board),
                             FALSE))
               IN clearSelection(w3, i)
          ELSE LET w1 == clearSelection(w, i)
               IN IF get(w1.chess, squareId) # Empty
                  THEN selectSquare(w1, i, squareId)
                  ELSE w1

\* handleSquareClick whose failure branch stops after clearSelection.
handleSquareClick_NoRetry(w, i, squareId) ==
  IF w.selectedSquare[i] = NoSq
  THEN IF get(w.chess, squareId) # Empty
       THEN selectSquare(w, i, squareId)
       ELSE w
  ELSE LET move == [from |-> w.selectedSquare[i], to |-> squareId,
                    promotion |-> "q"]
           r == makeMove(w.chess, move)
       IN IF r.ok
          THEN LET w1 == [w EXCEPT !.chess = r.chess, !.nEvents = @ + 1]
                   w2 == SetPublicSpaceProps(w1, i, getFen(w1.chess))
                   w3 == syncBoard(w2, i,
                           SyncInfo("move",
                             [from |-> move.from, to |-> squareId,
                              flag |-> r.flag, promotion |-> r.promotion],
                             Matches(w.pieces[i], w.objs, w.chess.board),
                             FALSE))
               IN clearSelection(w3, i)
          ELSE clearSelection(w, i)

\* handleSquareClick that publishes the FEN before it tries the move.
handleSquareClick_PublishFirst(w, i, squareId) ==
  IF w.selectedSquare[i] = NoSq
  THEN IF get(w.chess, squareId) # Empty
       THEN selectSquare(w, i, squareId)
       ELSE w
  ELSE LET move == [from |-> w.selectedSquare[i], to |-> squareId,
                    promotion |-> "q"]
           r == makeMove(w.chess, move)
           w0 == SetPublicSpaceProps(w, i, getFen(w.chess))
       IN IF r.ok
          THEN LET w1 == [w0 EXCEPT !.chess = r.chess, !.nEvents = @ + 1]
                   w3 == syncBoard(w1, i,
                           SyncInfo("move",
                             [from |-> move.from, to |-> squareId,
                              flag |-> r.flag, promotion |-> r.promotion],
                             Matches(w.pieces[i], w.objs, w.chess.board),
                             FALSE))
               IN clearSelection(w3, i)
          ELSE LET w1 == clearSelection(w0, i)
               IN IF get(w1.chess, squareId) # Empty
                  THEN selectSquare(w1, i, squareId)
                  ELSE w1

\* handleSquareClick whose failure branch reselects the clicked square
\* without asking whether a piece stands on it.
handleSquareClick_RetryAlways(w, i, squareId) ==
  IF w.selectedSquare[i] = NoSq
  THEN IF get(w.chess, squareId) # Empty
       THEN selectSquare(w, i, squareId)
       ELSE w
  ELSE LET move == [from |-> w.selectedSquare[i], to |-> squareId,
                    promotion |-> "q"]
           r == makeMove(w.chess, move)
       IN IF r.ok
          THEN LET w1 == [w EXCEPT !.chess = r.chess, !.nEvents = @ + 1]
                   w2 == SetPublicSpaceProps(w1, i, getFen(w1.chess))
                   w3 == syncBoard(w2, i,
                           SyncInfo("move",
                             [from |-> move.from, to |-> squareId,
                              flag |-> r.flag, promotion |-> r.promotion],
                             Matches(w.pieces[i], w.objs, w.chess.board),
                             FALSE))
               IN clearSelection(w3, i)
          ELSE [clearSelection(w, i) EXCEPT
                  !.selectedSquare[i] = squareId,
                  !.tiles[i][squareId] = "selected"]

handleSquareClick(w, i, squareId) ==
  IF w.selectedSquare[i] = NoSq
  THEN IF get(w.chess, squareId) # Empty
       THEN selectSquare(w, i, squareId)
       ELSE w
  ELSE LET move == [from |-> w.selectedSquare[i], to |-> squareId,
                    promotion |-> "q"]
           r == makeMove(w.chess, move)
       IN IF r.ok
          THEN LET w1 == [w EXCEPT !.chess = r.chess, !.nEvents = @ + 1]
                   w2 == SetPublicSpaceProps(w1, i, getFen(w1.chess))
                   w3 == syncBoard(w2, i,
                           SyncInfo("move",
                             [from |-> move.from, to |-> squareId,
                              flag |-> r.flag, promotion |-> r.promotion],
                             Matches(w.pieces[i], w.objs, w.chess.board),
                             FALSE))
               IN clearSelection(w3, i)
          ELSE LET w1 == clearSelection(w, i)
               IN IF get(w1.chess, squareId) # Empty
                  THEN selectSquare(w1, i, squareId)
                  ELSE w1

\* ------------------------------------------------------------ reset button
resetClick(w, i) ==
  LET w1 == SetPublicSpaceProps(w, i, ResetFen)
      w2 == [w1 EXCEPT !.chess = reset(@), !.nEvents = @ + 1]
      w3 == syncBoard(w2, i,
              SyncInfo("reset", NoMove,
                Matches(w.pieces[i], w.objs, w.chess.board), FALSE))
  IN clearSelection(w3, i)

\* -------------------------------------------------- space-state listeners
NoValue == [kind |-> "none", fen |-> ResetFen]

IsEcho(w, i, val) ==
  /\ w.ownWrite[stateKey(i)]
  /\ IF val.fen.tag = "reset" THEN w.chess = StartPosition
     ELSE val.fen = getFen(w.chess)

\* The handler with clearSelection in the FEN branch too.
spaceStateChanged_ClearsAlways(w, i, property) ==
  LET val == w.spaceState[stateKey(i)]
  IN IF property # stateKey(i) THEN w
     ELSE IF val.kind # "json" THEN w
     ELSE IF val.fen.tag = "reset"
     THEN LET w1 == [w EXCEPT !.chess = reset(@)]
              w2 == syncBoard(w1, i,
                      SyncInfo("remoteReset", NoMove,
                        Matches(w.pieces[i], w.objs, w.chess.board),
                        IsEcho(w, i, val)))
          IN clearSelection(w2, i)
     ELSE LET w1 == [w EXCEPT !.chess = loadFen(@, val.fen).chess]
              w2 == syncBoard(w1, i,
                      [SyncInfo("remote", NoMove,
                         Matches(w.pieces[i], w.objs, w.chess.board),
                         IsEcho(w, i, val)) EXCEPT !.arg = val.fen])
          IN clearSelection(w2, i)

\* The handler without the test of `changes`: it reacts to every event.
spaceStateChanged_NoFilter(w, i, property) ==
  LET val == w.spaceState[stateKey(i)]
  IN IF val.kind # "json" THEN w
     ELSE IF val.fen.tag = "reset"
     THEN LET w1 == [w EXCEPT !.chess = reset(@)]
              w2 == syncBoard(w1, i,
                      SyncInfo("remoteReset", NoMove,
                        Matches(w.pieces[i], w.objs, w.chess.board),
                        IsEcho(w, i, val)))
          IN clearSelection(w2, i)
     ELSE LET w1 == [w EXCEPT !.chess = loadFen(@, val.fen).chess]
          IN syncBoard(w1, i,
               [SyncInfo("remote", NoMove,
                  Matches(w.pieces[i], w.objs, w.chess.board),
                  IsEcho(w, i, val)) EXCEPT !.arg = val.fen])

\* The handler without its try/catch: a value JSON.parse throws on is taken
\* for the record its text resembles.
spaceStateChanged_NoCatch(w, i, property) ==
  LET val == w.spaceState[stateKey(i)]
  IN IF property # stateKey(i) THEN w
     ELSE IF val.kind = "none" THEN w
     ELSE IF val.fen.tag = "reset"
     THEN LET w1 == [w EXCEPT !.chess = reset(@)]
              w2 == syncBoard(w1, i,
                      SyncInfo("remoteReset", NoMove,
                        Matches(w.pieces[i], w.objs, w.chess.board),
                        IsEcho(w, i, val)))
          IN clearSelection(w2, i)
     ELSE LET w1 == [w EXCEPT !.chess = loadFen(@, val.fen).chess]
          IN syncBoard(w1, i,
               [SyncInfo("remote", NoMove,
                  Matches(w.pieces[i], w.objs, w.chess.board),
                  IsEcho(w, i, val)) EXCEPT !.arg = val.fen])

\* The space-state-changed handler of instance i, for an event whose list of
\* changes names `property`.  A value that is not there, and one JSON.parse
\* throws on, are skipped.
spaceStateChanged(w, i, property) ==
  LET val == w.spaceState[stateKey(i)]
  IN IF property # stateKey(i) THEN w
     ELSE IF val.kind # "json" THEN w
     ELSE IF val.fen.tag = "reset"
     THEN LET w1 == [w EXCEPT !.chess = reset(@)]
              w2 == syncBoard(w1, i,
                      SyncInfo("remoteReset", NoMove,
                        Matches(w.pieces[i], w.objs, w.chess.board),
                        IsEcho(w, i, val)))
          IN clearSelection(w2, i)
     ELSE LET w1 == [w EXCEPT !.chess = loadFen(@, val.fen).chess]
          IN syncBoard(w1, i,
               [SyncInfo("remote", NoMove,
                  Matches(w.pieces[i], w.objs, w.chess.board),
                  IsEcho(w, i, val)) EXCEPT !.arg = val.fen])

\* The initial load, once getSpaceStateValue has returned.
initialLoad(w, i) ==
  LET initialVal == w.spaceState[stateKey(i)]
      w0 == [w EXCEPT !.initPending[i] = FALSE, !.nReads[i] = @ + 1]
  IN IF initialVal.kind # "json" THEN w0
     ELSE LET w1 == [w0 EXCEPT !.chess = loadFen(@, initialVal.fen).chess]
          IN syncBoard(w1, i,
               [SyncInfo("initial", NoMove,
                  Matches(w.pieces[i], w.objs, w.chess.board), FALSE)
                EXCEPT !.arg = initialVal.fen])

\* setupBanterStateListeners without the listenersSetup guard.
setupBanterStateListeners_NoGuard(w, i) ==
  [w EXCEPT !.listenersSetup[i] = TRUE,
            !.initPending[i] = TRUE,
            !.nSetups[i] = @ + 1]

\* setupBanterStateListeners up to its `await getSpaceStateValue`: a second
\* call returns at once; the first registers the listener and starts
\* waiting for the initial read.
setupBanterStateListeners(w, i) ==
  IF w.listenersSetup[i]
  THEN [w EXCEPT !.nSetups[i] = @ + 1]
  ELSE [w EXCEPT !.listenersSetup[i] = TRUE,
                 !.initPending[i] = TRUE,
                 !.nSetups[i] = @ + 1]

\* ---------------------------------------------------------------- peers
\* Records other clients of the space write under an instance key: the
\* reset sentinel and two positions.  In PromoPosition the pawn can promote
\* with and without capturing.  QueenPosition has a piece the starting
\* position has not; Black can capture it, and can capture the pawn that
\* has just made a double push en passant.
PromoPosition ==
  [board |-> [s \in Squares |->
                CASE s = <<1, 1>> -> "K"
                  [] s = <<2, NRanks - 1>> -> "P"
                  [] s = <<3, NRanks>> -> "r"
                  [] s = <<NFiles, NRanks>> -> "k"
                  [] OTHER -> Empty],
   turn |-> "w", castle |-> {}, ep |-> NoSq]

QueenPosition ==
  [board |-> [s \in Squares |->
                CASE s = <<1, 1>> -> "K"
                  [] s = <<1, 4>> -> "P"
                  [] s = <<2, 4>> -> "p"
                  [] s = <<2, NRanks>> -> "Q"
                  [] s = <<3, NRanks>> -> "r"
                  [] s = <<NFiles, NRanks>> -> "k"
                  [] OTHER -> Empty],
   turn |-> "b", castle |-> {}, ep |-> <<1, 3>>]

\* A record whose fen the engine rejects (for one, a placement field with
\* too few rows), and a stored value that is not JSON.
InvalidFen == [tag |-> "invalid", rows |-> NoRows, turn |-> "-",
               castle |-> {}, ep |-> NoSq]

Malformed == [kind |-> "malformed", fen |-> ResetFen]

PeerValues ==
  {[kind |-> "json", fen |-> f] :
     f \in {ResetFen, fen(PromoPosition), fen(QueenPosition), InvalidFen}}
  \cup {Malformed}

\* ----------------------------------------------------------------- Init
StartTargets == newBoardState(fen(StartPosition))

\* The state once each instance's initializeBoard has run: the tiles made,
\* the first syncBoard done (one new object per piece of the starting
\* position), the listener registered and the initial read waiting.  The
\* space may hold a record for the key already, written before the page
\* was loaded.  With `ready` false it is the state just before
\* initializeBoard calls setupBanterStateListeners, the user identity not
\* known yet.
InitWith(loaded, stored, ready) ==
  LET n == Len(StartTargets)
      base(i) == IF i = "A" THEN 0 ELSE n
      count == IF "B" \in loaded THEN 2 * n ELSE n
      map(i) == [j \in 1..n |-> Entry(StartTargets[j].sq, base(i) + j)]
  IN /\ chess = StartPosition
     /\ insts = loaded
     /\ pieces = [i \in Instances |-> IF i \in loaded THEN map(i) ELSE <<>>]
     /\ selectedSquare = [i \in Instances |-> NoSq]
     /\ tiles = [i \in Instances |-> [s \in Squares |-> "normal"]]
     /\ objs = [o \in 1..count |->
                  LET j == IF o > n THEN o - n ELSE o
                  IN [type |-> StartTargets[j].char, sq |-> StartTargets[j].sq,
                      alive |-> TRUE, inst |-> IF o > n THEN "B" ELSE "A"]]
     /\ running = {}
     /\ spaceState \in [Keys -> stored]
     /\ spaceState[stateKey("B")] = NoValue
     /\ notifs = [k \in Keys |-> FALSE]
     /\ initPending = [i \in Instances |-> i \in loaded /\ ready]
     /\ listenersSetup = [i \in Instances |-> i \in loaded /\ ready]
     /\ nSetups = [i \in Instances |-> IF i \in loaded /\ ready THEN 1 ELSE 0]
     /\ nReads = [i \in Instances |-> 0]
     /\ uid = ready
     /\ ownWrite = [k \in Keys |-> FALSE]
     /\ syncSeq = [i \in Instances |-> IF i \in loaded THEN 1 ELSE 0]
     /\ lastPass =
          [i \in Instances |->
             [seq |-> syncSeq[i],
              info |-> [SyncInfo("init", NoMove, FALSE, FALSE) EXCEPT
                          !.fen = fen(StartPosition)],
              created |-> IF i \in loaded
                          THEN {base(i) + j : j \in 1..n} ELSE {},
              destroyed |-> {}, relocated |-> {}, failed |-> {}]]
     /\ latest = [i \in Instances |-> lastPass[i].info]
     /\ nEvents = 0
     /\ nFailures = 0

\* setupBanterStateListeners has been called and the user identity is there.
InitFor(loaded, stored) == InitWith(loaded, stored, TRUE)

\* One instance on the page, joining a space that is fresh or has a game
\* in progress.
Init == InitFor({"A"}, {NoValue} \cup PeerValues)

\* Two instances on the page; the first may find a position to promote in.
InitMulti ==
  InitFor({"A", "B"}, {NoValue, [kind |-> "json", fen |-> fen(PromoPosition)]})

\* -------------------------------------------------------------- actions
Within(w) == w.nEvents <= MaxEvents

\* A tile's click handler.
TileClick(i, squareId) ==
  /\ i \in insts
  /\ \E w \in {handleSquareClick(Cur, i, squareId)} : Within(w) /\ Commit(w)

\* A piece's click handler: the square that maps to the piece now.
currentSq(map, piece) ==
  IF \E j \in 1..Len(map) : map[j].obj = piece
  THEN map[CHOOSE j \in 1..Len(map) :
             map[j].obj = piece /\ \A h \in 1..(j - 1) : map[h].obj # piece].sq
  ELSE NoSq

\* The click handler that activates the square the object was put on last.
pieceClicked_StoredSquare(w, i, piece) ==
  handleSquareClick(w, i, w.objs[piece].sq)

pieceClicked(w, i, piece) ==
  IF currentSq(w.pieces[i], piece) # NoSq
  THEN handleSquareClick(w, i, currentSq(w.pieces[i], piece))
  ELSE w

PieceClick(i, piece) ==
  /\ i \in insts
  /\ piece \in 1..Len(objs)
  /\ objs[piece].alive
  /\ objs[piece].inst = i
  /\ \E w \in {pieceClicked(Cur, i, piece)} : Within(w) /\ Commit(w)

ResetClick(i) ==
  /\ i \in insts
  /\ nEvents < MaxEvents
  /\ \E w \in {resetClick(Cur, i)} : Commit(w)

\* Another client writes a record under the key of a loaded instance.
PeerPublish(k, v) ==
  /\ k \in {stateKey(i) : i \in insts}
  /\ nEvents < MaxEvents
  /\ spaceState' = [spaceState EXCEPT ![k] = v]
  /\ notifs' = [notifs EXCEPT ![k] = TRUE]
  /\ ownWrite' = [ownWrite EXCEPT ![k] = FALSE]
  /\ nEvents' = nEvents + 1
  /\ UNCHANGED <<chess, insts, pieces, selectedSquare, tiles, objs, running,
                 initPending, syncSeq, lastPass, latest, nFailures, uid,
                 listenersSetup, nSetups, nReads>>

\* The host delivers a space-state-changed event to the page: the listener
\* of each instance runs, in the order the instances registered.
dispatchTo(w, i, property) ==
  IF i \in w.insts /\ w.listenersSetup[i]
  THEN spaceStateChanged(w, i, property)
  ELSE w

StateChanged(k) ==
  /\ notifs[k]
  /\ \E w \in {dispatchTo(dispatchTo([Cur EXCEPT !.notifs[k] = FALSE], "A", k),
                          "B", k)} : Commit(w)

\* getSpaceStateValue returns (the user identity is there) and the initial
\* load runs.
InitialLoad(i) ==
  /\ i \in insts
  /\ initPending[i]
  /\ uid
  /\ \E w \in {initialLoad(Cur, i)} : Commit(w)

\* The host finishes creating the object a suspended syncBoard waits for.
CreateDone(p) ==
  /\ p \in running
  /\ \E w \in {createPiece(Cur, p)} : Commit(w)

Next ==
  \/ \E i \in Instances, s \in Squares : TileClick(i, s)
  \/ \E i \in Instances, o \in 1..Len(objs) : PieceClick(i, o)
  \/ \E i \in Instances : ResetClick(i)
  \/ \E k \in Keys, v \in PeerValues : PeerPublish(k, v)
  \/ \E k \in Keys : StateChanged(k)
  \/ \E i \in Instances : InitialLoad(i)
  \/ \E p \in running : CreateDone(p)

Spec == Init /\ [][Next]_vars

\* The page with two instances and no other client in the space; the
\* users click on the squares of MultiSquares and the pieces on them.
MultiSquares == {<<1, 1>>, <<2, NRanks - 1>>, <<2, NRanks>>}

NextMulti ==
  \/ \E i \in Instances, s \in MultiSquares : TileClick(i, s)
  \/ \E i \in Instances, o \in 1..Len(objs) :
       currentSq(pieces[i], o) \in MultiSquares /\ PieceClick(i, o)
  \/ \E i \in Instances : ResetClick(i)
  \/ \E k \in Keys : StateChanged(k)
  \/ \E i \in Instances : InitialLoad(i)
  \/ \E p \in running : CreateDone(p)

SpecMulti == InitMulti /\ [][NextMulti]_vars

\* The same page on a host whose object creation can fail.
CreateFail(p, partial) ==
  /\ p \in running
  /\ nFailures < MaxFailures
  /\ \E w \in {createPieceNull(Cur, p, partial)} : Commit(w)

\* The page joins a fresh space or a game in progress; no other client
\* writes meanwhile and the user clicks on the squares of MultiSquares.
InitFault ==
  InitFor({"A"}, {NoValue} \cup
                 {[kind |-> "json", fen |-> f] :
                    f \in {fen(PromoPosition), fen(QueenPosition)}})

NextFault ==
  \/ \E i \in Instances, s \in MultiSquares : TileClick(i, s)
  \/ \E i \in Instances, o \in 1..Len(objs) :
       currentSq(pieces[i], o) \in MultiSquares /\ PieceClick(i, o)
  \/ \E i \in Instances : ResetClick(i)
  \/ \E k \in Keys : StateChanged(k)
  \/ \E i \in Instances : InitialLoad(i)
  \/ \E p \in running : CreateDone(p)
  \/ \E p \in running, partial \in BOOLEAN : CreateFail(p, partial)

SpecFault == InitFault /\ [][NextFault]_vars

\* The page from the moment initializeBoard is about to set the listeners
\* up, the user identity not known yet.
InitStartup ==
  InitWith({"A"}, {NoValue} \cup
                  {[kind |-> "json", fen |-> f] :
                     f \in {ResetFen, fen(PromoPosition), fen(QueenPosition)}},
           FALSE)

\* initializeBoard reaches its call of setupBanterStateListeners.
Setup(i) ==
  /\ i \in insts
  /\ nSetups[i] < MaxSetups
  /\ \E w \in {setupBanterStateListeners(Cur, i)} : Commit(w)

\* The host makes scene.localUser.uid known.
UserArrives ==
  /\ ~uid
  /\ uid' = TRUE
  /\ UNCHANGED <<chess, insts, pieces, selectedSquare, tiles, objs, running,
                 spaceState, notifs, initPending, ownWrite, syncSeq, lastPass,
                 latest, nEvents, nFailures, listenersSetup, nSetups, nReads>>

NextStartup ==
  \/ \E i \in Instances : Setup(i)
  \/ UserArrives
  \/ \E i \in Instances, s \in MultiSquares : TileClick(i, s)
  \/ \E i \in Instances, o \in 1..Len(objs) :
       currentSq(pieces[i], o) \in MultiSquares /\ PieceClick(i, o)
  \/ \E i \in Instances : ResetClick(i)
  \/ \E k \in Keys : StateChanged(k)
  \/ \E i \in Instances : InitialLoad(i)
  \/ \E p \in running : CreateDone(p)

\* A round of getSpaceStateValue's polling loop that finds the identity
\* and returns: the step of InitialLoad(i) as seen on nReads, which no
\* other step increments.
PollReturns(i) ==
  /\ i \in insts
  /\ initPending[i]
  /\ uid
  /\ nReads' = [nReads EXCEPT ![i] = @ + 1]

\* The polling loop runs on a 200 ms timer: once the identity is known the
\* next round returns, so the initial read is weakly fair.
SpecStartup ==
  /\ InitStartup
  /\ [][NextStartup]_vars
  /\ \A i \in Instances : WF_nReads(PollReturns(i))

\* ------------------------------------------------------------ properties
\* No syncBoard call of instance i is suspended.
Quiet(i) == \A q \in running : q.inst # i

\* The board a FEN's placement field describes, read as the engine reads it.
BoardOf(f) == LoadRows(EmptyBoard, f.rows, 1)

\* Two Piece Maps that map the same squares to the same objects.
SameMap(m1, m2) ==
  {<<m1[j].sq, m1[j].obj>> : j \in 1..Len(m1)}
    = {<<m2[j].sq, m2[j].obj>> : j \in 1..Len(m2)}

\* The syncBoard call of instance i that completed last was started by a
\* local move made from a Piece Map that matched the position.
MovePass(i) ==
  /\ i \in insts
  /\ lastPass[i].info.trig = "move"
  /\ lastPass[i].info.matched

\* The object the Piece Map held on `sq` when the call that completed last
\* for instance i was started.
Before(i, sq) == PieceAt(lastPass[i].info.mapBefore, sq)

\* C1: after any sequence of legal moves, once the syncBoard call the last
\* move started has completed (none is suspended), the squares of the Piece
\* Map are exactly the occupied squares of the FEN that move produced, and
\* each mapped object has the descriptor the FEN gives for its square.
C1_MapMatchesFenAfterMove ==
  \A i \in insts :
    (Quiet(i) /\ latest[i].trig = "move")
      => Matches(pieces[i], objs, BoardOf(latest[i].fen))

C3_QuietMoveRelocatesOnly ==
  \A i \in insts :
    (/\ MovePass(i)
     /\ lastPass[i].info.mv.flag \in {"n", "b", "k"}
     /\ lastPass[i].info.mv.promotion = "")
      => /\ lastPass[i].created = {}
         /\ lastPass[i].destroyed = {}
         /\ Cardinality(lastPass[i].relocated) <= 2
         /\ Before(i, lastPass[i].info.mv.from) \in lastPass[i].relocated
         /\ lastPass[i].info.mv.flag # "k"
              => lastPass[i].relocated = {Before(i, lastPass[i].info.mv.from)}

C3_Witness ==
  \E i \in insts :
    /\ MovePass(i)
    /\ lastPass[i].info.mv.flag = "k"
    /\ Cardinality(lastPass[i].relocated) = 2
    /\ lastPass[i].created = {}

\* C4 as stated: the pass of a move onto a square an enemy piece stands on
\* destroys exactly the captured piece's object, relocates exactly the
\* mover's object and creates none.
C4_CaptureAsStated ==
  \A i \in insts :
    (MovePass(i) /\ lastPass[i].info.mv.flag = "c")
      => /\ lastPass[i].destroyed = {Before(i, lastPass[i].info.mv.to)}
         /\ lastPass[i].relocated = {Before(i, lastPass[i].info.mv.from)}
         /\ lastPass[i].created = {}

\* C4, amended: the pass of a capture that is not a promotion destroys
\* exactly the captured piece's object, relocates exactly the mover's
\* object to the destination square and creates none.
C4_CaptureWithoutPromotion ==
  \A i \in insts :
    (/\ MovePass(i)
     /\ lastPass[i].info.mv.flag = "c"
     /\ lastPass[i].info.mv.promotion = "")
      => /\ lastPass[i].destroyed = {Before(i, lastPass[i].info.mv.to)}
         /\ lastPass[i].relocated = {Before(i, lastPass[i].info.mv.from)}
         /\ lastPass[i].created = {}
         /\ PieceAt(pieces[i], lastPass[i].info.mv.to)
              = Before(i, lastPass[i].info.mv.from)
         /\ lastPass[i].seq = syncSeq[i]
              => objs[Before(i, lastPass[i].info.mv.from)].sq
                   = lastPass[i].info.mv.to

C4_Witness ==
  \E i \in insts :
    /\ MovePass(i)
    /\ lastPass[i].info.mv.flag = "c"
    /\ lastPass[i].info.mv.promotion = ""
    /\ Cardinality(lastPass[i].destroyed) = 1

\* The descriptor of the piece a pawn of instance i's last pass became.
Promoted(i) ==
  IF objs[Before(i, lastPass[i].info.mv.from)].type = "P"
  THEN toUpperCase(lastPass[i].info.mv.promotion)
  ELSE lastPass[i].info.mv.promotion

C6_ResetReconcilesToStart ==
  \A i \in insts :
    (Quiet(i) /\ latest[i].trig = "remoteReset")
      => /\ chess = StartPosition
         /\ Matches(pieces[i], objs, StartBoard)

\* The steps of instance "A": its clicks and the handling of its own key.
StepOfA ==
  \/ \E s \in Squares : TileClick("A", s)
  \/ \E o \in 1..Len(objs) : PieceClick("A", o)
  \/ ResetClick("A")
  \/ StateChanged(stateKey("A"))

\* C7: no step of instance A changes the position instance B plays on
\* (B's handlers read window.chessGame, the variable chess), B's Piece Map
\* or B's selection.
C7_InstancesIndependent ==
  [][StepOfA => /\ chess' = chess
                /\ pieces'["B"] = pieces["B"]
                /\ selectedSquare'["B"] = selectedSquare["B"]]_vars

\* C8: a syncBoard call started by the notification that echoes the record
\* the client itself wrote for its own position, at whatever time it is
\* delivered, creates no object and destroys none and leaves the Piece Map
\* as it was.
C8_EchoIsNoOp ==
  \A i \in insts :
    lastPass[i].info.echo
      => /\ lastPass[i].created = {}
         /\ lastPass[i].destroyed = {}
         /\ SameMap(pieces[i], lastPass[i].info.mapBefore)

\* The squares the engine gives as destinations of the selected square.
Destinations(i) == {m.to : m \in getMoves(chess, selectedSquare[i])}

\* C9: with a square s selected, activating a square the engine gives as a
\* legal destination of s makes that move: the position becomes the one
\* after a legal move from s to t, its FEN is published under the instance
\* key, and nothing is selected.
C9_LegalDestinationMoves ==
  \A i \in insts : \A t \in Squares :
    (selectedSquare[i] # NoSq /\ t \in Destinations(i))
      => LET w == handleSquareClick(Cur, i, t)
         IN /\ w.chess # chess
            /\ \E m \in getMoves(chess, selectedSquare[i]) :
                 m.to = t /\ w.chess = make_move(chess, m)
            /\ w.spaceState[stateKey(i)] = [kind |-> "json", fen |-> getFen(w.chess)]
            /\ w.notifs[stateKey(i)]
            /\ w.selectedSquare[i] = NoSq

C9_Witness ==
  \E i \in insts : \E t \in Squares :
    /\ selectedSquare[i] # NoSq
    /\ tiles[i][t] = "valid"
    /\ \E m \in getMoves(chess, selectedSquare[i]) :
         m.to = t /\ m.promotion # ""
    /\ nEvents < MaxEvents
    /\ handleSquareClick(Cur, i, t).chess # chess

\* C10: with a square s selected, activating an empty square that is not a
\* legal destination of s makes no move and publishes nothing; nothing is
\* selected afterwards and every tile has its normal colour.
C10_IllegalEmptyDestinationClears ==
  \A i \in insts : \A t \in Squares :
    (/\ selectedSquare[i] # NoSq
     /\ t \notin Destinations(i)
     /\ get(chess, t) = Empty)
      => LET w == handleSquareClick(Cur, i, t)
         IN /\ w.chess = chess
            /\ w.spaceState = spaceState
            /\ w.notifs = notifs
            /\ w.syncSeq = syncSeq
            /\ w.selectedSquare[i] = NoSq
            /\ \A s \in Squares : w.tiles[i][s] = "normal"

C10_Witness ==
  \E i \in insts : \E t \in Squares :
    /\ selectedSquare[i] # NoSq
    /\ \E s \in Squares : tiles[i][s] = "valid"
    /\ t \notin Destinations(i)
    /\ get(chess, t) = Empty
    /\ handleSquareClick(Cur, i, t).selectedSquare[i] = NoSq

\* The record stored under the key of instance i is JSON whose fen is a
\* string the engine rejects and is not the reset sentinel.
RejectedRecord(i) ==
  /\ spaceState[stateKey(i)].kind = "json"
  /\ spaceState[stateKey(i)].fen.tag # "reset"
  /\ ~validate_fen(spaceState[stateKey(i)].fen)

\* C11: when the record handled carries a fen the engine rejects, loadFen
\* reports failure, the position stays as it was and the handler starts no
\* syncBoard call for that update.
C11_RejectedFenStartsNoSync ==
  \A i \in insts :
    (notifs[stateKey(i)] /\ RejectedRecord(i))
      => LET w == spaceStateChanged(Cur, i, stateKey(i))
         IN /\ ~loadFen(chess, spaceState[stateKey(i)].fen).ok
            /\ w.chess = chess
            /\ w.syncSeq = syncSeq

\* C12: no consumer of a stored record gives the reset sentinel to loadFen:
\* the call started last for an instance was never started by a caller that
\* had just passed "reset" to loadFen.
C12_ResetNeverLoaded ==
  \A i \in insts : latest[i].arg # ResetFen

\* What a handler's result w leaves as it is when it ignores its event: the
\* position, the Piece Maps and the objects, the selection and the tiles,
\* and the syncBoard calls started and suspended.
Ignored(w) ==
  /\ w.chess = chess
  /\ w.pieces = pieces
  /\ w.objs = objs
  /\ w.selectedSquare = selectedSquare
  /\ w.tiles = tiles
  /\ w.syncSeq = syncSeq
  /\ w.running = running

\* C13: when the value stored under the instance key fails JSON parsing,
\* the handler (and the initial load) ignores it: position, Piece Map and
\* selection stay as they were and no syncBoard call is started.
C13_MalformedIgnored ==
  \A i \in insts :
    spaceState[stateKey(i)].kind = "malformed"
      => /\ notifs[stateKey(i)]
              => Ignored(spaceStateChanged(Cur, i, stateKey(i)))
         /\ initPending[i] => Ignored(initialLoad(Cur, i))

C13_Witness ==
  \E i \in insts :
    /\ spaceState[stateKey(i)] = Malformed
    /\ nEvents = 1
    /\ ~notifs[stateKey(i)]
    /\ selectedSquare[i] # NoSq
    /\ chess # StartPosition

\* C14: once the handler has handled a notification whose stored record
\* carries a valid FEN and the reconciliation it started has finished (no
\* call is suspended), the position is the one that FEN describes and the
\* Piece Map has its occupied squares and descriptors, whatever was missed
\* before.
C14_SnapshotAdopted ==
  \A i \in insts :
    (Quiet(i) /\ latest[i].trig = "remote" /\ validate_fen(latest[i].arg))
      => /\ getFen(chess) = latest[i].arg
         /\ Matches(pieces[i], objs, BoardOf(latest[i].arg))

\* C15: in every reachable state the Piece Map of an instance has at most
\* one entry per square and no object is the value of two squares.
C15_PieceMapInjective ==
  \A i \in insts :
    \A j, h \in 1..Len(pieces[i]) :
      j # h => /\ pieces[i][j].sq # pieces[i][h].sq
               /\ pieces[i][j].obj # pieces[i][h].obj

\* A map replaced by a call that finished after a later call had finished,
\* and that relocated or created objects.
C15_Witness ==
  \E i \in insts :
    /\ Quiet(i)
    /\ lastPass[i].seq < syncSeq[i]
    /\ lastPass[i].created # {}
    /\ Len(pieces[i]) > 1

\* C17: a syncBoard call, once started, is finished before any handler runs
\* that starts another: no step starts a call for an instance that has a
\* call suspended at a creation.
C17_NoInterleavedSync ==
  [][\A i \in insts : syncSeq'[i] # syncSeq[i] => Quiet(i)]_vars

\* C16: an event whose list of changes does not name the key of instance i
\* leaves the position, the Piece Map and the selection of i as they were
\* and starts no syncBoard call.
C16_ForeignKeyIgnored ==
  \A i \in insts : \A k \in Keys \ {stateKey(i)} :
    Ignored(spaceStateChanged(Cur, i, k))

\* The event for the other instance's key has been delivered while the
\* first instance, with a record stored under its own key, has not started
\* a call since it was set up.
C16_Witness ==
  /\ insts = Instances
  /\ spaceState[stateKey("A")].kind = "json"
  /\ spaceState[stateKey("B")].kind = "json"
  /\ ownWrite[stateKey("B")]
  /\ ~notifs[stateKey("B")]
  /\ syncSeq["A"] = 1

\* A handler's result w has written nothing to the space.
NoWrite(w) ==
  /\ w.spaceState = spaceState
  /\ w.notifs = notifs
  /\ w.ownWrite = ownWrite

\* w has written the record `rec` under the key of instance i, and nothing
\* else.
Wrote(w, i, rec) ==
  /\ w.spaceState = [spaceState EXCEPT ![stateKey(i)] = rec]
  /\ w.notifs = [notifs EXCEPT ![stateKey(i)] = TRUE]

\* C18: the page writes a record only in a square activation that makes a
\* legal move, and then the record's fen is the FEN of the position right
\* after the move, or in a click on the reset control, and then the fen is
\* "reset"; an activation that makes no move writes nothing and leaves the
\* position as it was, and no other handler writes.
C18_PublishOnlyOnSuccess ==
  \A i \in insts :
    /\ \A t \in Squares :
         LET w == handleSquareClick(Cur, i, t)
         IN IF w.chess # chess
            THEN /\ \E m \in getMoves(chess, selectedSquare[i]) :
                      m.to = t /\ w.chess = make_move(chess, m)
                 /\ Wrote(w, i, [kind |-> "json", fen |-> getFen(w.chess)])
            ELSE NoWrite(w)
    /\ Wrote(resetClick(Cur, i), i, [kind |-> "json", fen |-> ResetFen])
    /\ \A k \in Keys : NoWrite(spaceStateChanged(Cur, i, k))
    /\ NoWrite(initialLoad(Cur, i))
    /\ \A p \in running : NoWrite(createPiece(Cur, p))

\* The record of a successful move is stored, a square is selected again
\* and an attempt that will fail can be made.
C18_Witness ==
  \E i \in insts :
    /\ latest[i].trig = "move"
    /\ ownWrite[stateKey(i)]
    /\ spaceState[stateKey(i)] = [kind |-> "json", fen |-> getFen(chess)]
    /\ selectedSquare[i] # NoSq
    /\ \E t \in Squares :
         /\ get(chess, t) = Empty
         /\ handleSquareClick(Cur, i, t).chess = chess

\* The move from the selected square of instance i to t, as handleSquareClick
\* asks the engine for it, is refused.
MoveFails(i, t) ==
  ~makeMove(chess, [from |-> selectedSquare[i], to |-> t,
                    promotion |-> "q"]).ok

\* C19: with a square s selected, activating a square t to which the move
\* fails selects t if t is occupied (t = s included): t has the selected
\* colour, exactly the legal destinations of t have the valid colour and
\* every other tile, those of the previous selection included, is normal;
\* if t is empty nothing is selected.
C19_ReselectOnFailure ==
  \A i \in insts : \A t \in Squares :
    (selectedSquare[i] # NoSq /\ MoveFails(i, t))
      => LET w == handleSquareClick(Cur, i, t)
             dests == {m.to : m \in getMoves(chess, t)}
         IN IF get(chess, t) # Empty
            THEN /\ w.selectedSquare[i] = t
                 /\ \A s \in Squares :
                      w.tiles[i][s] = IF s = t THEN "selected"
                                      ELSE IF s \in dests THEN "valid"
                                      ELSE "normal"
            ELSE w.selectedSquare[i] = NoSq

\* A piece with legal moves is selected and another piece that has legal
\* moves of its own can be activated; a tile highlighted for the first will
\* be normal afterwards.
C19_Witness ==
  \E i \in insts : \E t \in Squares :
    /\ selectedSquare[i] # NoSq
    /\ selectedSquare[i] # t
    /\ MoveFails(i, t)
    /\ get(chess, t) # Empty
    /\ getMoves(chess, t) # {}
    /\ \E s \in Squares :
         /\ tiles[i][s] = "valid"
         /\ handleSquareClick(Cur, i, t).tiles[i][s] = "normal"

\* A step in which the user of instance i activates a square (by its tile
\* or by the piece on it) or clicks the reset control.
Activation(i) ==
  \/ \E s \in Squares : TileClick(i, s)
  \/ \E o \in 1..Len(objs) : PieceClick(i, o)
  \/ ResetClick(i)

\* A step that delivers the event for the key of instance i while the
\* record stored under it is the reset sentinel.
ResetHandled(i) ==
  /\ spaceState[stateKey(i)] = [kind |-> "json", fen |-> ResetFen]
  /\ StateChanged(stateKey(i))

\* C20, as stated: a selected square stays selected across every step that
\* is not an activation by the user (remote FEN updates, remote reset
\* notifications, the initial read, the completion of syncBoard calls): a
\* step that changes the selection is an activation.
C20_AsStated ==
  [][\A i \in insts :
       (selectedSquare[i] # NoSq /\ selectedSquare'[i] # selectedSquare[i])
         => Activation(i)]_vars

\* C20, amended: a selected square stays selected across every step that
\* is neither an activation by the user nor the handling of a notification
\* whose stored record is the reset sentinel: a step that changes the
\* selection is one of the two.
C20_SelectionPersists ==
  [][\A i \in insts :
       (selectedSquare[i] # NoSq /\ selectedSquare'[i] # selectedSquare[i])
         => (Activation(i) \/ ResetHandled(i))]_vars

\* A selection that outlived a remote FEN update: the tiles still show the
\* destinations of the position the selection was made in.
C20_Witness ==
  \E i \in insts :
    /\ selectedSquare[i] # NoSq
    /\ latest[i].trig = "remote"
    /\ validate_fen(latest[i].arg)
    /\ {s \in Squares : tiles[i][s] = "valid"} # Destinations(i)

\* The entries of the Piece Map the call that completed last for instance i
\* was started from whose object has the descriptor the call's FEN gives
\* for the entry's square.
InPlace(i) ==
  LET lp == lastPass[i]
      target == BoardOf(lp.info.fen)
  IN {lp.info.mapBefore[j] : j \in 1..Len(lp.info.mapBefore)}
       \cap {e \in [sq : Squares, obj : 1..Len(objs)] :
               objs[e.obj].type = target[e.sq]}

\* C21: whatever Piece Map and FEN a syncBoard call starts from, an object
\* that stands on a square for which the FEN gives the object's descriptor
\* is mapped to that square, and to no other, when the call completes, and
\* the call neither relocates nor destroys it.
C21_InPlaceObjectsStay ==
  \A i \in insts : \A e \in InPlace(i) :
    /\ PieceAt(pieces[i], e.sq) = e.obj
    /\ \A h \in 1..Len(pieces[i]) :
         pieces[i][h].obj = e.obj => pieces[i][h].sq = e.sq
    /\ e.obj \notin lastPass[i].relocated
    /\ e.obj \notin lastPass[i].destroyed

\* A call started from a map that did not match the position the handler
\* found: it kept an object in place, relocated others and destroyed some.
C21_Witness ==
  \E i \in insts :
    /\ ~lastPass[i].info.matched
    /\ lastPass[i].info.trig # "init"
    /\ InPlace(i) # {}
    /\ lastPass[i].relocated # {}
    /\ lastPass[i].destroyed # {}

\* The objects a Piece Map holds.
ObjectsOf(map) == {map[j].obj : j \in 1..Len(map)}

\* C22: when the creation a suspended syncBoard call waits for fails, the
\* call goes on: the square is skipped, and when the call completes the
\* Piece Map is replaced by one that has every other occupied square of the
\* call's FEN, each with an object of the square's descriptor, and lacks
\* the squares whose creation failed; the objects of the old map that the
\* new one does not hold are destroyed.
C22_CreationFailureSkipsSquare ==
  \A p \in running : \A partial \in BOOLEAN :
    LET w == createPieceNull(Cur, p, partial)
        i == p.inst
        sq == Head(p.pending).sq
        target == BoardOf(p.info.fen)
        lp == w.lastPass[i]
    IN IF \E q \in w.running : q.inst = i /\ q.seq = p.seq
       THEN \A q \in w.running :
              (q.inst = i /\ q.seq = p.seq) => sq \in q.failed
       ELSE /\ lp.seq = p.seq
            /\ sq \in lp.failed
            /\ {w.pieces[i][j].sq : j \in 1..Len(w.pieces[i])}
                 = {t \in Squares : target[t] # Empty} \ lp.failed
            /\ \A j \in 1..Len(w.pieces[i]) :
                 w.objs[w.pieces[i][j].obj].type = target[w.pieces[i][j].sq]
            /\ \A o \in ObjectsOf(p.info.mapBefore) \ ObjectsOf(w.pieces[i]) :
                 ~w.objs[o].alive

\* A call has completed after a creation failed: it destroyed and
\* relocated objects, and its map lacks the square.
C22_Witness ==
  \E i \in insts :
    /\ lastPass[i].failed # {}
    /\ lastPass[i].destroyed # {}
    /\ lastPass[i].relocated # {}
    /\ \A sq \in lastPass[i].failed : PieceAt(pieces[i], sq) = 0
    /\ Len(pieces[i]) > 0

\* The squares the Piece Map of instance i maps to object o.
SquaresOf(i, o) ==
  {pieces[i][j].sq : j \in {h \in 1..Len(pieces[i]) : pieces[i][h].obj = o}}

\* The objects of instance i a user can click: created with a click
\* handler and not destroyed.
Clickable(i) ==
  {o \in 1..Len(objs) :
     objs[o].alive /\ objs[o].inst = i /\ objs[o].type # Empty}

\* C23: a click on a piece object activates the square the Piece Map maps
\* to the object at that moment, wherever the object was created or put
\* last, and does nothing when no square maps to it.
C23_PieceClickReverseLookup ==
  \A i \in insts : \A o \in Clickable(i) :
    IF SquaresOf(i, o) = {}
    THEN pieceClicked(Cur, i, o) = Cur
    ELSE \A s \in SquaresOf(i, o) :
           pieceClicked(Cur, i, o) = handleSquareClick(Cur, i, s)

\* An object a call relocated and the map holds on its new square can be
\* clicked with nothing selected, and the click selects the new square.
C23_Witness ==
  \E i \in insts : \E o \in Clickable(i) \cap lastPass[i].relocated :
    /\ selectedSquare[i] = NoSq
    /\ PieceAt(lastPass[i].info.mapBefore, objs[o].sq) # o
    /\ SquaresOf(i, o) = {objs[o].sq}
    /\ pieceClicked(Cur, i, o).selectedSquare[i] = objs[o].sq

\* C24: the initial read of an instance is never made before the user
\* identity is known and is made at most once, however often
\* setupBanterStateListeners is called; once the identity is known and the
\* listeners are set up, the initial read is eventually made.
C24_InitialReadOnceAfterIdentity ==
  /\ [](\A i \in Instances : nReads[i] <= 1 /\ (nReads[i] > 0 => uid))
  /\ \A i \in Instances : (uid /\ listenersSetup[i]) ~> (nReads[i] = 1)

\* The stored record has been applied by the one initial read although
\* setupBanterStateListeners was called twice.
C24_Witness ==
  \E i \in insts :
    /\ nSetups[i] = 2
    /\ nReads[i] = 1
    /\ latest[i].trig = "initial"
    /\ chess # StartPosition

\* C25, as stated: in every reachable state with a selected square, the
\* square holds a piece in the current position of the rules engine, also
\* after remote FEN updates that arrive while it is selected.
C25_AsStated ==
  \A i \in insts :
    selectedSquare[i] # NoSq => get(chess, selectedSquare[i]) # Empty

\* C25, amended: a square holds a piece in the current position at the
\* moment it becomes the selected one, and no activation on the client
\* leaves its selection on an empty square: a selected square is empty
\* only after the position was changed under a selection that stayed (by
\* a remote FEN update or the initial read).
C25_SelectedWhenOccupied ==
  [][\A i \in insts :
       (selectedSquare'[i] # NoSq /\ get(chess', selectedSquare'[i]) = Empty)
         => (selectedSquare'[i] = selectedSquare[i] /\ ~Activation(i))]_vars

\* A square is selected and a remote FEN update has since replaced the
\* position by one in which the square is empty.
C25_Witness ==
  \E i \in insts :
    /\ selectedSquare[i] # NoSq
    /\ get(chess, selectedSquare[i]) = Empty
    /\ latest[i].trig = "remote"
    /\ tiles[i][selectedSquare[i]] = "selected"

\* The rendered piece objects of instance i that were created and not
\* destroyed.
LiveObjects(i) == {o \in 1..Len(objs) : objs[o].alive /\ objs[o].inst = i}

\* C26: whenever no syncBoard call of an instance is in progress, its live
\* piece objects are exactly the values of its Piece Map: the map refers to
\* no destroyed object and no live object is outside the map.
C26_LiveObjectsAreMapValues ==
  \A i \in insts : Quiet(i) => LiveObjects(i) = ObjectsOf(pieces[i])

\* For the syncBoard call of instance i that completed last and a
\* descriptor d: the squares of board b that hold d, the entries of the
\* Piece Map the call started from whose object has descriptor d, and the
\* objects of descriptor d among a set of objects.
TargetOf(b, d) == {s \in Squares : b[s] = d}
CurrentOf(i, d) ==
  LET map == lastPass[i].info.mapBefore
  IN {j \in 1..Len(map) : objs[map[j].obj].type = d}
OfDescriptor(S, d) == {o \in S : objs[o].type = d}

====
